---- MODULE Spec2Model ----
(***************************************************************************)
(* A model of the Vulkan api::Context of ATen/native/vulkan/api/Context.h: *)
(* the shared command buffer cmd_, the submission counter submit_count_,   *)
(* the recording mutex cmd_mutex_, the two deferred-cleanup lists with     *)
(* their mutexes, the UniformParamsBuffer / StorageBuffer wrappers, and    *)
(* the callers' threads, each at a position inside submit_copy,            *)
(* submit_compute_job, flush, or a cleanup registration.                   *)
(***************************************************************************)
EXTENDS Integers, Sequences, FiniteSets, TLC

\* ------------------------------------------------------------ bounds
NumThreads == 2      \* caller threads
MaxOps == 4          \* copy / dispatch calls of one behaviour of Spec
MaxFreq == 2         \* largest configured cmdSubmitFrequency
MaxRes == 2          \* GPU buffers and images created in one behaviour
MaxArgs == 2         \* longest argument pack of a compute job
MaxJobs == 1         \* compute jobs of one behaviour of SpecJob
CleanOps == 1        \* copy / dispatch calls of one behaviour of SpecClean
MisuseOps == 2       \* copy / dispatch calls of one behaviour of SpecMisuse
MaxCopies == 2       \* copies of one behaviour of SpecCopy
LiveOps == 2         \* copy / dispatch calls of one behaviour of SpecLive

Threads == 1 .. NumThreads
MaxWrappers == MaxRes + 1   \* wrapper objects, moved-from ones included

\* VK_NULL_HANDLE for a command buffer, a GPU resource, a mutex owner
NullCmd == 0
NullRes == 0
NoOwner == 0

VARIABLES
  cmdSubmitFrequency,        \* config_.cmdSubmitFrequency
  cmd_,                      \* the open command buffer: its id in cmds, or NullCmd
  cmds,                      \* every command buffer the pool handed out
  submit_count_,             \* operations recorded since the last submission
  queue,                     \* the submissions the queue received, in order
  cmd_mutex_,                \* owner thread of the recording mutex, or NoOwner
  buffer_clearlist_mutex_,   \* owner of the buffer clear-list mutex
  image_clearlist_mutex_,    \* owner of the image clear-list mutex
  buffers_to_clear_,         \* buffers registered for cleanup
  images_to_clear_,          \* images registered for cleanup
  released,                  \* how often each GPU resource was released
  registered,                \* how often each GPU resource was registered
  wrappers,                  \* the UniformParamsBuffer / StorageBuffer objects
  nextRes,                   \* GPU resources created so far
  nextOp,                    \* copy / dispatch calls that started recording
  held,                      \* threads holding the lock of dispatch_lock()
  pc,                        \* each thread's position
  local,                     \* each thread's call frame
  closed                     \* the context's destructor has run

vars == <<cmdSubmitFrequency, cmd_, cmds, submit_count_, queue, cmd_mutex_,
          buffer_clearlist_mutex_, image_clearlist_mutex_, buffers_to_clear_,
          images_to_clear_, released, registered, wrappers, nextRes, nextOp,
          held, pc, local, closed>>

ctxVars == <<cmd_, cmds, submit_count_, queue>>
cleanVars == <<buffer_clearlist_mutex_, image_clearlist_mutex_,
               buffers_to_clear_, images_to_clear_, released, registered>>
wrapVars == <<wrappers, nextRes>>

\* ------------------------------------------------------------ inputs
\* requested extents, shader tile sizes and local sizes of a compute job
Extents == {<<10, 10, 1>>, <<5, 1, 3>>}
Tiles == {<<4, 4, 1>>, <<1, 2, 3>>}
LocalSizes == {<<4, 4, 4>>}
Bindables == {"a", "b"}
\* the types submit_copy<S, D> may be instantiated with: VulkanBuffer,
\* VulkanImage, and any other type
Kinds == {"buffer", "image", "other"}

RECURSIVE SeqsUpTo(_, _)
SeqsUpTo(S, n) ==
  IF n = 0 THEN {<<>>}
  ELSE LET shorter == SeqsUpTo(S, n - 1)
       IN shorter \cup {Append(s, x) : s \in {q \in shorter : Len(q) = n - 1}, x \in S}

ArgLists == SeqsUpTo(Bindables, MaxArgs)

\* the inputs of Spec: one compute job shape, every fence / kind choice
SpecExtents == {<<10, 10, 1>>}
SpecTiles == {<<4, 4, 1>>}
SpecArgLists == {<<"a", "b">>}

NoCall == [kind |-> "none", fence |-> FALSE, op |-> 0, own |-> FALSE,
           gwg |-> <<>>, tile |-> <<>>, lwg |-> <<>>, args |-> <<>>,
           ds |-> <<>>, egw |-> <<>>, S |-> "", D |-> "", res |-> NullRes]

\* ------------------------------------------------------------ pure code
\* set_cmd's test `if (!cmd_)`; faulty variant: the test left out
set_cmd_always(cmd) == TRUE
set_cmd_needed(cmd) == cmd = NullCmd

\* the lock test of submit_copy / submit_compute_job:
\* `if (fence_handle == VK_NULL_HANDLE) cmd_lock = unique_lock(cmd_mutex_)`;
\* faulty variants: the mutex never taken; the test inverted (`!=` for `==`)
lock_never(fence) == FALSE
lock_if_fenced(fence) == fence
lock_needed(fence) == ~fence

\* the submission policy of submit_copy / submit_compute_job:
\* `fence_handle != VK_NULL_HANDLE || submit_count_ >= config_.cmdSubmitFrequency`;
\* faulty variants: `>` for `>=`, the fence ignored, a threshold of 0 taken
\* to switch the threshold off
should_submit_gt(fence, count, frequency) == fence \/ count > frequency
should_submit_no_fence(fence, count, frequency) == count >= frequency
should_submit_unless_zero(fence, count, frequency) ==
  fence \/ (frequency # 0 /\ count >= frequency)
should_submit(fence, count, frequency) == fence \/ count >= frequency

\* utils::div_up (Utils.h): the quotient rounded up, denominator >= 1
div_up(numerator, denominator) ==
  (numerator + denominator - 1) \div denominator

\* effective_global_wg of submit_compute_job; faulty variant: the tile size
\* of the first axis used on every axis
effective_global_wg_first_axis(global_work_group, out_tile_size) ==
  << div_up(global_work_group[1], out_tile_size[1]),
     div_up(global_work_group[2], out_tile_size[1]),
     div_up(global_work_group[3], out_tile_size[1]) >>
effective_global_wg(global_work_group, out_tile_size) ==
  << div_up(global_work_group[1], out_tile_size[1]),
     div_up(global_work_group[2], out_tile_size[2]),
     div_up(global_work_group[3], out_tile_size[3]) >>

\* std::index_sequence_for<Arguments...>: 0, 1, .., n - 1
index_sequence_for(arguments) == [k \in 1 .. Len(arguments) |-> k - 1]

\* detail::bind: the braced initializer list evaluates its elements left to
\* right, one descriptor_set.bind(Indices, arguments) per element of the pack.
\* A descriptor set is the sequence of bind calls it received. Faulty variant:
\* the pack evaluated right to left, as function arguments may be.
RECURSIVE bind_right_to_left(_, _, _)
bind_right_to_left(descriptor_set, Indices, arguments) ==
  IF Indices = <<>> THEN descriptor_set
  ELSE Append(bind_right_to_left(descriptor_set, Tail(Indices), Tail(arguments)),
              <<Head(Indices), Head(arguments)>>)
RECURSIVE bind(_, _, _)
bind(descriptor_set, Indices, arguments) ==
  IF Indices = <<>> THEN descriptor_set
  ELSE bind(Append(descriptor_set, <<Head(Indices), Head(arguments)>>),
            Tail(Indices), Tail(arguments))

\* record_copy<S, D>: the primary template is deleted, so that submit_copy<S, D>
\* compiles for the four specialized pairs only
record_copy_defined(S, D) ==
  <<S, D>> \in {<<"buffer", "buffer">>, <<"image", "image">>,
                <<"image", "buffer">>, <<"buffer", "image">>}

\* record_copy<S, D>: the four specializations; faulty variant: the two mixed
\* specializations call each other's primitive
record_copy_mixed_up(S, D) ==
  CASE S = "buffer" /\ D = "buffer" -> "copy_buffer_to_buffer"
    [] S = "image" /\ D = "image" -> "copy_texture_to_texture"
    [] S = "image" /\ D = "buffer" -> "copy_buffer_to_texture"
    [] S = "buffer" /\ D = "image" -> "copy_texture_to_buffer"
record_copy(S, D) ==
  CASE S = "buffer" /\ D = "buffer" -> "copy_buffer_to_buffer"
    [] S = "image" /\ D = "image" -> "copy_texture_to_texture"
    [] S = "image" /\ D = "buffer" -> "copy_texture_to_buffer"
    [] S = "buffer" /\ D = "image" -> "copy_buffer_to_texture"

\* register_buffer_cleanup / register_image_cleanup: emplace_back(std::move(x));
\* faulty variant: the resource not kept
register_cleanup_drop(clearlist, resource) == clearlist
register_cleanup(clearlist, resource) == Append(clearlist, resource)

\* ------------------------------------------------------------ helpers
\* cmd_.<record>(...): one entry appended to the open command buffer. Recording
\* through a null cmd_ records nowhere.
Record(entry) ==
  cmds' = IF cmd_ = NullCmd THEN cmds
          ELSE [cmds EXCEPT ![cmd_].ops = Append(@, entry)]

Goto(t, where) == pc' = [pc EXCEPT ![t] = where]

Return(t) ==
  /\ pc' = [pc EXCEPT ![t] = "idle"]
  /\ local' = [local EXCEPT ![t] = NoCall]

\* ------------------------------------------------------------ initial state
\* The context after construction: nothing open, nothing counted, nothing
\* registered, every mutex free; the threshold is the configuration's.
InitContext ==
  /\ cmd_ = NullCmd
  /\ cmds = <<>>
  /\ submit_count_ = 0
  /\ queue = <<>>
  /\ cmd_mutex_ = NoOwner
  /\ buffer_clearlist_mutex_ = NoOwner
  /\ image_clearlist_mutex_ = NoOwner
  /\ buffers_to_clear_ = <<>>
  /\ images_to_clear_ = <<>>
  /\ released = [r \in 1 .. MaxRes |-> 0]
  /\ registered = [r \in 1 .. MaxRes |-> 0]
  /\ wrappers = <<>>
  /\ nextRes = 0
  /\ nextOp = 0
  /\ held = [t \in Threads |-> FALSE]
  /\ pc = [t \in Threads |-> "idle"]
  /\ local = [t \in Threads |-> NoCall]
  /\ closed = FALSE

Init ==
  /\ cmdSubmitFrequency \in 0 .. MaxFreq
  /\ InitContext

\* ------------------------------------------------------------ the recording lock
\* dispatch_lock(): the caller takes cmd_mutex_ and keeps it
DispatchLock(t) ==
  /\ pc[t] = "idle"
  /\ ~held[t]
  /\ cmd_mutex_ = NoOwner
  /\ cmd_mutex_' = t
  /\ held' = [held EXCEPT ![t] = TRUE]
  /\ UNCHANGED <<cmdSubmitFrequency, closed, ctxVars, cleanVars, wrapVars, nextOp, pc, local>>

\* the caller lets the unique_lock returned by dispatch_lock() go
DispatchUnlock(t) ==
  /\ pc[t] = "idle"
  /\ held[t]
  /\ cmd_mutex_' = NoOwner
  /\ held' = [held EXCEPT ![t] = FALSE]
  /\ UNCHANGED <<cmdSubmitFrequency, closed, ctxVars, cleanVars, wrapVars, nextOp, pc, local>>

\* ------------------------------------------------------------ submit_copy, submit_compute_job
\* A call of submit_copy<S, D>. A fenced call is made by the holder of
\* dispatch_lock(); an un-fenced one by a thread that does not hold it
\* (std::mutex is not recursive).
SubmitCopy(t, fence_handle, S, D) ==
  /\ pc[t] = "idle"
  /\ held[t] = fence_handle
  /\ local' = [local EXCEPT ![t] =
                 [NoCall EXCEPT !.kind = "copy", !.fence = fence_handle,
                                !.S = S, !.D = D]]
  /\ Goto(t, "lock")
  /\ UNCHANGED <<cmdSubmitFrequency, closed, ctxVars, cleanVars, wrapVars, nextOp,
                 cmd_mutex_, held>>

\* A call of submit_compute_job with the shader's out_tile_size and the
\* argument pack.
SubmitComputeJob(t, fence_handle, gwg, tile, lwg, args) ==
  /\ pc[t] = "idle"
  /\ held[t] = fence_handle
  /\ local' = [local EXCEPT ![t] =
                 [NoCall EXCEPT !.kind = "job", !.fence = fence_handle,
                                !.gwg = gwg, !.tile = tile, !.lwg = lwg,
                                !.args = args]]
  /\ Goto(t, "lock")
  /\ UNCHANGED <<cmdSubmitFrequency, closed, ctxVars, cleanVars, wrapVars, nextOp,
                 cmd_mutex_, held>>

\* A call of submit_copy<S, D> that passes a fence although the caller did not
\* take dispatch_lock(): the call is made like any other, nothing in
\* submit_copy asks who owns cmd_mutex_.
SubmitCopyUnlocked(t, S, D) ==
  /\ pc[t] = "idle"
  /\ ~held[t]
  /\ local' = [local EXCEPT ![t] =
                 [NoCall EXCEPT !.kind = "copy", !.fence = TRUE,
                                !.S = S, !.D = D]]
  /\ Goto(t, "lock")
  /\ UNCHANGED <<cmdSubmitFrequency, closed, ctxVars, cleanVars, wrapVars, nextOp,
                 cmd_mutex_, held>>

\* `if (fence_handle == VK_NULL_HANDLE) cmd_lock = unique_lock(cmd_mutex_)`:
\* blocks while another thread owns the mutex. The call is numbered here, in
\* the order in which the callers get past the lock.
Lock(t) ==
  /\ pc[t] = "lock"
  /\ IF lock_needed(local[t].fence)
       THEN /\ cmd_mutex_ = NoOwner
            /\ cmd_mutex_' = t
            /\ local' = [local EXCEPT ![t].own = TRUE, ![t].op = nextOp + 1]
       ELSE /\ UNCHANGED cmd_mutex_
            /\ local' = [local EXCEPT ![t].op = nextOp + 1]
  /\ nextOp' = nextOp + 1
  /\ Goto(t, "set_cmd")
  /\ UNCHANGED <<cmdSubmitFrequency, closed, ctxVars, cleanVars, wrapVars, held>>

\* set_cmd(): acquire and begin a command buffer when none is open
set_cmd ==
  IF set_cmd_needed(cmd_)
    THEN /\ cmds' = Append(cmds, [state |-> "recording", ops |-> <<>>])
         /\ cmd_' = Len(cmds) + 1
    ELSE UNCHANGED <<cmd_, cmds>>

SetCmd(t) ==
  /\ pc[t] = "set_cmd"
  /\ set_cmd
  /\ Goto(t, IF local[t].kind = "job" THEN "prologue" ELSE "barrier")
  /\ UNCHANGED <<cmdSubmitFrequency, closed, submit_count_, queue, cleanVars, wrapVars,
                 nextOp, cmd_mutex_, held, local>>

\* submit_compute_prologue hands out the descriptor set of the shader;
\* detail::bind fills it; the global work-group size is adjusted.
Prologue(t) ==
  /\ pc[t] = "prologue"
  /\ local' = [local EXCEPT
                 ![t].ds = bind(<<>>, index_sequence_for(local[t].args),
                                local[t].args),
                 ![t].egw = effective_global_wg(local[t].gwg, local[t].tile)]
  /\ Goto(t, "barrier")
  /\ UNCHANGED <<cmdSubmitFrequency, closed, ctxVars, cleanVars, wrapVars, nextOp,
                 cmd_mutex_, held>>

\* faulty variant: the payload recorded with no barrier before it
Barrier_left_out(t) ==
  /\ pc[t] = "barrier"
  /\ Goto(t, "payload")
  /\ UNCHANGED <<cmdSubmitFrequency, closed, ctxVars, cleanVars,
                 wrapVars, nextOp, cmd_mutex_, held, local>>
\* cmd_.insert_barrier(pipeline_barrier): in submit_copy itself, in
\* submit_compute_epilogue for a compute job
Barrier(t) ==
  /\ pc[t] = "barrier"
  /\ Record([op |-> local[t].op, step |-> "barrier", data |-> <<>>])
  /\ Goto(t, "payload")
  /\ UNCHANGED <<cmdSubmitFrequency, closed, cmd_, submit_count_, queue, cleanVars,
                 wrapVars, nextOp, cmd_mutex_, held, local>>

\* record_copy(cmd_, source, destination, ..), or the dispatch of
\* submit_compute_epilogue with the bound descriptor set
Payload(t) ==
  /\ pc[t] = "payload"
  /\ IF local[t].kind = "copy"
       THEN Record([op |-> local[t].op,
                    step |-> record_copy(local[t].S, local[t].D),
                    data |-> <<>>])
       ELSE Record([op |-> local[t].op, step |-> "dispatch",
                    data |-> <<local[t].egw, local[t].lwg, local[t].ds>>])
  /\ Goto(t, "count")
  /\ UNCHANGED <<cmdSubmitFrequency, closed, cmd_, submit_count_, queue, cleanVars,
                 wrapVars, nextOp, cmd_mutex_, held, local>>

\* ~unique_lock of cmd_lock at the return: the mutex is let go if the call took
\* it; faulty variant: the mutex kept
cmd_lock_kept(own, owner) == owner
cmd_lock_released(own, owner) == IF own THEN NoOwner ELSE owner

\* faulty variant of submit_cmd_to_gpu: a fenced submission keeps counting
submit_cmd_to_gpu_keep_count(fence_handle, by) ==
  /\ cmds' = IF cmd_ = NullCmd THEN cmds
             ELSE [cmds EXCEPT ![cmd_].state = "submitted"]
  /\ queue' = Append(queue, [cmd |-> cmd_, fence |-> fence_handle, by |-> by])
  /\ submit_count_' = IF fence_handle THEN submit_count_ + 1 ELSE 0
  /\ cmd_' = NullCmd
\* submit_cmd_to_gpu(fence_handle): end the recording, hand the buffer to the
\* queue with the fence, reset the counter, leave no buffer open. `by` notes
\* the caller: a copy / dispatch call or flush.
submit_cmd_to_gpu(fence_handle, by) ==
  /\ cmds' = IF cmd_ = NullCmd THEN cmds
             ELSE [cmds EXCEPT ![cmd_].state = "submitted"]
  /\ queue' = Append(queue, [cmd |-> cmd_, fence |-> fence_handle, by |-> by])
  /\ submit_count_' = 0
  /\ cmd_' = NullCmd

\* `submit_count_++; if (fence || submit_count_ >= frequency) submit_cmd_to_gpu`
\* and the return, where cmd_lock lets the mutex go if it owns it. The counter
\* is below the uint32_t threshold before the increment, which cannot wrap.
Count(t) ==
  /\ pc[t] = "count"
  /\ LET counted == submit_count_ + 1
     IN IF should_submit(local[t].fence, counted, cmdSubmitFrequency)
          THEN submit_cmd_to_gpu(local[t].fence, "op")
          ELSE /\ submit_count_' = counted
               /\ UNCHANGED <<cmd_, cmds, queue>>
  /\ cmd_mutex_' = cmd_lock_released(local[t].own, cmd_mutex_)
  /\ Return(t)
  /\ UNCHANGED <<cmdSubmitFrequency, closed, cleanVars, wrapVars, nextOp, held>>

\* ------------------------------------------------------------ flush
\* faulty variants of flush's submission: only at the threshold; even with
\* nothing open
flush_submit_at_threshold ==
  IF cmd_ # NullCmd /\ submit_count_ >= cmdSubmitFrequency
    THEN submit_cmd_to_gpu(FALSE, "flush")
    ELSE UNCHANGED ctxVars
flush_submit_always == submit_cmd_to_gpu(FALSE, "flush")
\* flush(), first half: whatever is pending is submitted, with no fence and
\* whatever the counter says; with nothing open nothing is submitted.
flush_submit ==
  IF cmd_ # NullCmd
    THEN submit_cmd_to_gpu(FALSE, "flush")
    ELSE UNCHANGED ctxVars

\* flush(), second half: both clear lists are emptied under their mutexes,
\* which releases every resource in them.
RECURSIVE CountIn(_, _)
CountIn(list, r) ==
  IF list = <<>> THEN 0
  ELSE (IF Head(list) = r THEN 1 ELSE 0) + CountIn(Tail(list), r)

flush_drain ==
  /\ buffer_clearlist_mutex_ = NoOwner
  /\ image_clearlist_mutex_ = NoOwner
  /\ released' = [r \in 1 .. MaxRes |->
                    released[r] + CountIn(buffers_to_clear_, r)
                                + CountIn(images_to_clear_, r)]
  /\ buffers_to_clear_' = <<>>
  /\ images_to_clear_' = <<>>
  /\ UNCHANGED <<buffer_clearlist_mutex_, image_clearlist_mutex_, registered>>

\* flush() is called by the holder of dispatch_lock()
Flush(t) ==
  /\ pc[t] = "idle"
  /\ held[t]
  /\ flush_submit
  /\ Goto(t, "drain")
  /\ local' = [local EXCEPT ![t].kind = "flush"]
  /\ UNCHANGED <<cmdSubmitFrequency, closed, cleanVars, wrapVars, nextOp, cmd_mutex_, held>>

Drain(t) ==
  /\ pc[t] = "drain"
  /\ flush_drain
  /\ Return(t)
  /\ UNCHANGED <<cmdSubmitFrequency, closed, ctxVars, wrapVars, nextOp, cmd_mutex_, held>>

\* ------------------------------------------------------------ ~Context
\* faulty variant of the destructor's work: an open recording left as it is
context_teardown_no_submit ==
  /\ flush_drain
  /\ UNCHANGED ctxVars
\* what the destructor does to the context: an open recording is submitted,
\* both clear lists are drained
context_teardown ==
  /\ flush_submit
  /\ flush_drain

\* ~Context(): the owner destroys the context when no thread is inside one of
\* its functions and no mutex of it is held
ContextDestructor ==
  /\ ~closed
  /\ \A t \in Threads : pc[t] = "idle"
  /\ cmd_mutex_ = NoOwner
  /\ context_teardown
  /\ closed' = TRUE
  /\ UNCHANGED <<cmdSubmitFrequency, wrapVars, nextOp, cmd_mutex_, held, pc, local>>

\* ------------------------------------------------------------ wrappers and cleanup
\* UniformParamsBuffer(context, block) / StorageBuffer(context, dtype, numel):
\* the wrapper owns a newly created GPU buffer
Construct(kind) ==
  /\ nextRes < MaxRes
  /\ Len(wrappers) < MaxWrappers
  /\ wrappers' = Append(wrappers, [kind |-> kind, buf |-> nextRes + 1, live |-> TRUE])
  /\ nextRes' = nextRes + 1
  /\ UNCHANGED <<cmdSubmitFrequency, closed, ctxVars, cleanVars, nextOp, cmd_mutex_,
                 held, pc, local>>

\* UniformParamsBuffer(UniformParamsBuffer&&) = default: the new wrapper takes
\* the buffer, the moved-from one keeps a null handle. StorageBuffer's move
\* constructor is deleted.
MoveConstruct(i) ==
  /\ i \in 1 .. Len(wrappers)
  /\ wrappers[i].live
  /\ wrappers[i].kind = "UniformParamsBuffer"
  /\ Len(wrappers) < MaxWrappers
  /\ wrappers' = Append([wrappers EXCEPT ![i].buf = NullRes],
                        [kind |-> "UniformParamsBuffer", buf |-> wrappers[i].buf,
                         live |-> TRUE])
  /\ UNCHANGED <<cmdSubmitFrequency, closed, ctxVars, cleanVars, nextRes, nextOp,
                 cmd_mutex_, held, pc, local>>

\* a wrapper after its destructor ran
Destroyed == [kind |-> "destroyed", buf |-> NullRes, live |-> FALSE]

\* faulty variant: ~UniformParamsBuffer without its test
destructor_registers_always(w) == TRUE
\* ~UniformParamsBuffer: `if (vulkan_buffer_) register_buffer_cleanup(..)`;
\* ~StorageBuffer: register_buffer_cleanup(vulkan_buffer_) always
destructor_registers(w) ==
  w.kind = "StorageBuffer" \/ w.buf # NullRes

Destroy(t, i) ==
  /\ pc[t] = "idle"
  /\ i \in 1 .. Len(wrappers)
  /\ wrappers[i].live
  /\ wrappers' = [wrappers EXCEPT ![i] = Destroyed]
  /\ IF destructor_registers(wrappers[i])
       THEN /\ local' = [local EXCEPT ![t].kind = "register",
                                      ![t].res = wrappers[i].buf]
            /\ Goto(t, "reg_buffer")
       ELSE UNCHANGED <<pc, local>>
  /\ UNCHANGED <<cmdSubmitFrequency, closed, ctxVars, cleanVars, nextRes, nextOp,
                 cmd_mutex_, held>>

\* a call of register_image_cleanup with an image the caller created
RegisterImage(t) ==
  /\ pc[t] = "idle"
  /\ nextRes < MaxRes
  /\ nextRes' = nextRes + 1
  /\ local' = [local EXCEPT ![t].kind = "register", ![t].res = nextRes + 1]
  /\ Goto(t, "reg_image")
  /\ UNCHANGED <<cmdSubmitFrequency, closed, ctxVars, cleanVars, wrappers, nextOp,
                 cmd_mutex_, held>>

\* faulty variant: the registration also waits for the recording mutex
RegBufferLock_after_cmd_mutex(t) ==
  /\ pc[t] = "reg_buffer"
  /\ cmd_mutex_ \in {NoOwner, t}
  /\ buffer_clearlist_mutex_ = NoOwner
  /\ buffer_clearlist_mutex_' = t
  /\ Goto(t, "push_buffer")
  /\ UNCHANGED <<cmdSubmitFrequency, closed, ctxVars, wrapVars, nextOp, cmd_mutex_,
                 held, local, image_clearlist_mutex_, buffers_to_clear_,
                 images_to_clear_, released, registered>>
\* register_buffer_cleanup: lock_guard(buffer_clearlist_mutex_) ..
RegBufferLock(t) ==
  /\ pc[t] = "reg_buffer"
  /\ buffer_clearlist_mutex_ = NoOwner
  /\ buffer_clearlist_mutex_' = t
  /\ Goto(t, "push_buffer")
  /\ UNCHANGED <<cmdSubmitFrequency, closed, ctxVars, wrapVars, nextOp, cmd_mutex_,
                 held, local, image_clearlist_mutex_, buffers_to_clear_,
                 images_to_clear_, released, registered>>

NoteRegistered(r) ==
  registered' = IF r \in DOMAIN registered
                  THEN [registered EXCEPT ![r] = @ + 1] ELSE registered

\* .. buffers_to_clear_.emplace_back(std::move(buffer)), and the guard's end
RegBufferPush(t) ==
  /\ pc[t] = "push_buffer"
  /\ buffers_to_clear_' = register_cleanup(buffers_to_clear_, local[t].res)
  /\ NoteRegistered(local[t].res)
  /\ buffer_clearlist_mutex_' = NoOwner
  /\ Return(t)
  /\ UNCHANGED <<cmdSubmitFrequency, closed, ctxVars, wrapVars, nextOp, cmd_mutex_,
                 held, image_clearlist_mutex_, images_to_clear_, released>>

\* register_image_cleanup: lock_guard(image_clearlist_mutex_) ..
RegImageLock(t) ==
  /\ pc[t] = "reg_image"
  /\ image_clearlist_mutex_ = NoOwner
  /\ image_clearlist_mutex_' = t
  /\ Goto(t, "push_image")
  /\ UNCHANGED <<cmdSubmitFrequency, closed, ctxVars, wrapVars, nextOp, cmd_mutex_,
                 held, local, buffer_clearlist_mutex_, buffers_to_clear_,
                 images_to_clear_, released, registered>>

\* .. images_to_clear_.emplace_back(std::move(image)), and the guard's end
RegImagePush(t) ==
  /\ pc[t] = "push_image"
  /\ images_to_clear_' = register_cleanup(images_to_clear_, local[t].res)
  /\ NoteRegistered(local[t].res)
  /\ image_clearlist_mutex_' = NoOwner
  /\ Return(t)
  /\ UNCHANGED <<cmdSubmitFrequency, closed, ctxVars, wrapVars, nextOp, cmd_mutex_,
                 held, buffer_clearlist_mutex_, buffers_to_clear_, released>>

\* ------------------------------------------------------------ specifications
\* copy / dispatch calls made so far, those waiting for the lock included
OpsStarted == nextOp + Cardinality({u \in Threads : pc[u] = "lock"})

\* the calls of the recording side: the lock, copies, compute jobs, flush
Recording(budget) ==
  \/ \E t \in Threads : DispatchLock(t)
  \/ \E t \in Threads : DispatchUnlock(t)
  \/ \E t \in Threads, f \in BOOLEAN :
       OpsStarted < budget /\ SubmitCopy(t, f, "buffer", "image")
  \/ \E t \in Threads, f \in BOOLEAN, gwg \in SpecExtents, tile \in SpecTiles,
        lwg \in LocalSizes, args \in SpecArgLists :
       OpsStarted < budget /\ SubmitComputeJob(t, f, gwg, tile, lwg, args)
  \/ \E t \in Threads : Lock(t)
  \/ \E t \in Threads : SetCmd(t)
  \/ \E t \in Threads : Prologue(t)
  \/ \E t \in Threads : Barrier(t)
  \/ \E t \in Threads : Payload(t)
  \/ \E t \in Threads : Count(t)
  \/ \E t \in Threads : Flush(t)
  \/ \E t \in Threads : Drain(t)

\* the wrappers' lives and the cleanup registrations
Cleanup ==
  \/ \E kind \in {"UniformParamsBuffer", "StorageBuffer"} : Construct(kind)
  \/ \E i \in 1 .. MaxWrappers : MoveConstruct(i)
  \/ \E t \in Threads, i \in 1 .. MaxWrappers : Destroy(t, i)
  \/ \E t \in Threads : RegisterImage(t)
  \/ \E t \in Threads : RegBufferLock(t)
  \/ \E t \in Threads : RegBufferPush(t)
  \/ \E t \in Threads : RegImageLock(t)
  \/ \E t \in Threads : RegImagePush(t)

\* Spec: the command batching engine under concurrent callers
Next == Recording(MaxOps)

Spec == Init /\ [][Next]_vars

\* SpecClean: the whole context, deferred cleanup included
NextClean == Recording(CleanOps) \/ Cleanup

SpecClean == Init /\ [][NextClean]_vars

\* SpecMisuse: callers that may break the contract of the externally managed
\* lock by passing a fence without holding dispatch_lock()
NextMisuse ==
  \/ Recording(MisuseOps)
  \/ \E t \in Threads :
       OpsStarted < MisuseOps /\ SubmitCopyUnlocked(t, "buffer", "image")

SpecMisuse == Init /\ [][NextMisuse]_vars

\* SpecCopy: one thread issuing copies between every pair of kinds that
\* compiles
NextCopy ==
  \/ DispatchLock(1)
  \/ DispatchUnlock(1)
  \/ \E f \in BOOLEAN, S \in Kinds, D \in Kinds :
       nextOp < MaxCopies /\ record_copy_defined(S, D) /\ SubmitCopy(1, f, S, D)
  \/ Lock(1)
  \/ SetCmd(1)
  \/ Barrier(1)
  \/ Payload(1)
  \/ Count(1)

SpecCopy == Init /\ [][NextCopy]_vars

\* SpecLife: the context from construction to destruction; a destroyed
\* context is not used any more
NextLife ==
  \/ ~closed /\ Recording(CleanOps)
  \/ ~closed /\ Cleanup
  \/ ContextDestructor

SpecLife == Init /\ [][NextLife]_vars

\* SpecLive: the recording side under fair scheduling. A thread inside a call
\* keeps running; a thread waiting for cmd_mutex_ gets it if it is free again
\* and again; a holder of dispatch_lock() lets it go in the end.
NextLive == Recording(LiveOps)

Fairness ==
  \A t \in Threads :
    /\ SF_vars(Lock(t))
    /\ WF_vars(SetCmd(t))
    /\ WF_vars(Prologue(t))
    /\ WF_vars(Barrier(t))
    /\ WF_vars(Payload(t))
    /\ WF_vars(Count(t))
    /\ WF_vars(Drain(t))
    /\ SF_vars(DispatchUnlock(t))

SpecLive == Init /\ [][NextLive]_vars /\ Fairness

\* SpecJob: one thread issuing compute jobs of every shape of Extents, Tiles
\* and ArgLists
NextJob ==
  \/ DispatchLock(1)
  \/ DispatchUnlock(1)
  \/ \E f \in BOOLEAN, gwg \in Extents, tile \in Tiles, lwg \in LocalSizes,
        args \in ArgLists :
       nextOp < MaxJobs /\ SubmitComputeJob(1, f, gwg, tile, lwg, args)
  \/ Lock(1)
  \/ SetCmd(1)
  \/ Prologue(1)
  \/ Barrier(1)
  \/ Payload(1)
  \/ Count(1)

SpecJob == Init /\ [][NextJob]_vars

\* ------------------------------------------------------------ observations
\* the payload entries (copies and dispatches) among recorded entries
RECURSIVE Payloads(_)
Payloads(ops) ==
  IF ops = <<>> THEN 0
  ELSE (IF Head(ops).step # "barrier" THEN 1 ELSE 0) + Payloads(Tail(ops))

\* the command stream: what every command buffer holds, in acquisition order
RECURSIVE StreamFrom(_)
StreamFrom(b) ==
  IF b > Len(cmds) THEN <<>> ELSE cmds[b].ops \o StreamFrom(b + 1)
Stream == StreamFrom(1)

\* operations recorded so far
OpsRecorded == Payloads(Stream)

InCall(t) == pc[t] \in {"lock", "set_cmd", "prologue", "barrier", "payload", "count"}

BatchSize(i) == Payloads(cmds[queue[i].cmd].ops)
SubmissionsBy(by) == {i \in 1 .. Len(queue) : queue[i].by = by}

\* no fenced call was made
Unfenced ==
  /\ \A t \in Threads : ~local[t].fence
  /\ \A i \in 1 .. Len(queue) : ~queue[i].fence

\* flush was called only after the operations: nothing was recorded after a
\* submission made by flush
FlushedLast == \A i \in SubmissionsBy("flush") : queue[i].cmd = Len(cmds)

\* C1: with un-fenced operations only, on a fresh context with threshold
\* T >= 1, every submission carries one batch: exactly T operations when the
\* threshold triggered it, the remaining ones (at least one, fewer than T) when
\* flush made it. For N operations, flushed only after the last of them, there
\* are at most ceil(N / T) submissions, and their number is a function of N and
\* T: N div T for the threshold, plus one by flush if it found N mod T pending.
C1_SubmissionCount ==
  (Unfenced /\ cmdSubmitFrequency >= 1) =>
    LET T == cmdSubmitFrequency
        N == OpsRecorded
        counting == Cardinality({t \in Threads : pc[t] = "count"})
    IN /\ \A i \in SubmissionsBy("op") : BatchSize(i) = T
       /\ \A i \in SubmissionsBy("flush") : BatchSize(i) < T /\ BatchSize(i) >= 1
       /\ Len(queue) = Cardinality(SubmissionsBy("op"))
                         + Cardinality(SubmissionsBy("flush"))
       /\ FlushedLast =>
            /\ Len(queue) * T <= N + T - 1
            /\ Cardinality(SubmissionsBy("flush")) <= 1
            /\ \A i \in SubmissionsBy("flush") : BatchSize(i) = N % T
            /\ Cardinality(SubmissionsBy("op")) = (N - counting) \div T

C1_Witness ==
  /\ Unfenced /\ FlushedLast
  /\ cmdSubmitFrequency = 2
  /\ OpsRecorded = 3
  /\ Len(queue) = 2
  /\ queue[1].by = "op"
  /\ queue[2].by = "flush"

\* C2: the step of a copy / dispatch call that counts the operation submits
\* the open command buffer exactly when the call has a fence or the counter,
\* incremented, has reached the threshold; otherwise nothing is submitted and
\* the operation stays in the open buffer. No other step of the call submits.
C2_SubmitIffFenceOrThreshold ==
  [][\A t \in Threads :
       /\ (pc[t] = "count" /\ pc'[t] = "idle") =>
            IF local[t].fence \/ submit_count_ + 1 >= cmdSubmitFrequency
              THEN /\ cmd_ # NullCmd
                   /\ Len(queue') = Len(queue) + 1
                   /\ queue'[Len(queue')].cmd = cmd_
                   /\ cmds'[cmd_].state = "submitted"
                   /\ \E k \in 1 .. Len(cmds'[cmd_].ops) :
                        cmds'[cmd_].ops[k].op = local[t].op
              ELSE /\ queue' = queue
                   /\ cmd_' = cmd_ /\ cmd_ # NullCmd
                   /\ cmds' = cmds
                   /\ cmds[cmd_].state = "recording"
                   /\ \E k \in 1 .. Len(cmds[cmd_].ops) :
                        /\ cmds[cmd_].ops[k].op = local[t].op
                        /\ cmds[cmd_].ops[k].step # "barrier"
       /\ (InCall(t) /\ pc[t] # "count" /\ pc'[t] # pc[t]) => queue' = queue
    ]_vars

\* a fenced call submitted below the threshold, and an un-fenced one was deferred
C2_Witness ==
  /\ \A t \in Threads : pc[t] = "idle"
  /\ \E i \in 1 .. Len(queue) :
       queue[i].fence /\ queue[i].by = "op" /\ BatchSize(i) < cmdSubmitFrequency
  /\ cmd_ # NullCmd
  /\ Payloads(cmds[cmd_].ops) >= 1

\* C3: in the command stream every operation is a barrier entry immediately
\* followed by its payload entry (unless its thread is just between the two,
\* at the end of the stream), and the operations appear in the order in which
\* their callers got past the recording lock.
C3_NoInterleaving ==
  LET s == Stream
  IN /\ \A k \in 1 .. Len(s) :
          IF s[k].step = "barrier"
            THEN IF k < Len(s)
                   THEN s[k + 1].op = s[k].op /\ s[k + 1].step # "barrier"
                   ELSE \E t \in Threads : pc[t] = "payload" /\ local[t].op = s[k].op
            ELSE k > 1 /\ s[k - 1].op = s[k].op /\ s[k - 1].step = "barrier"
     /\ \A k \in 1 .. Len(s) - 1 : s[k].op <= s[k + 1].op
     /\ \A t \in Threads :
          pc[t] \in {"payload", "count"} =>
            \E k \in 1 .. Len(s) : s[k].op = local[t].op

\* one thread is between its barrier and its payload, behind an operation
\* already in the stream, while another waits for the lock with an un-fenced
\* call
C3_Witness ==
  \E t, u \in Threads :
    /\ t # u
    /\ pc[t] = "payload" /\ ~local[t].fence
    /\ pc[u] = "lock" /\ ~local[u].fence
    /\ Len(Stream) = 3

\* ------------------------------------------------------------ deferred cleanup
\* where GPU resource r is: owned by a wrapper, on its way into a clear list,
\* in a clear list, released
Owned(r) == Cardinality({i \in 1 .. Len(wrappers) : wrappers[i].buf = r})
Registering(r) ==
  Cardinality({t \in Threads :
                 /\ pc[t] \in {"reg_buffer", "push_buffer", "reg_image", "push_image"}
                 /\ local[t].res = r})
Queued(r) == CountIn(buffers_to_clear_, r) + CountIn(images_to_clear_, r)

IsPrefix(a, b) == Len(a) <= Len(b) /\ \A k \in 1 .. Len(a) : a[k] = b[k]

DrainStep == \E t \in Threads : pc[t] = "drain" /\ pc'[t] = "idle"

\* C4: a resource handed to register_buffer_cleanup / register_image_cleanup
\* (by a wrapper's destructor or directly) is in its clear list and not
\* released; only the drain step of flush takes entries out of the lists and
\* releases anything, and it releases each queued resource once: after N
\* registrations and a flush exactly N resources are released.
C4_Accounting ==
  \A r \in 1 .. MaxRes :
    /\ Owned(r) + Registering(r) + Queued(r) + released[r]
         = (IF r <= nextRes THEN 1 ELSE 0)
    /\ Queued(r) + released[r] = registered[r]

C4_ReleasedOnlyByDrain ==
  /\ []C4_Accounting
  /\ [][/\ ~DrainStep =>
             /\ released' = released
             /\ IsPrefix(buffers_to_clear_, buffers_to_clear_')
             /\ IsPrefix(images_to_clear_, images_to_clear_')
        /\ DrainStep =>
             /\ buffers_to_clear_' = <<>> /\ images_to_clear_' = <<>>
             /\ \A r \in 1 .. MaxRes : released'[r] = registered[r]
       ]_vars

\* two wrappers were destroyed, a submission went by, a flush released both
C4_Witness ==
  /\ Cardinality({i \in 1 .. Len(wrappers) : wrappers[i] = Destroyed}) >= 2
  /\ released[1] = 1 /\ released[2] = 1
  /\ \E i \in 1 .. Len(queue) : queue[i].by = "op"

\* C5: flush submits whatever is pending, whatever the counter says, and only
\* then drains: while a flush is at its drain step, and when it returns, no
\* command buffer is open, every recorded operation is submitted and the
\* counter is zero; when it returns both clear lists are empty.
NothingPending ==
  /\ cmd_ = NullCmd
  /\ submit_count_ = 0
  /\ \A b \in 1 .. Len(cmds) : cmds[b].state = "submitted"
  /\ \A b \in 1 .. Len(cmds) : \E i \in 1 .. Len(queue) : queue[i].cmd = b

C5_FlushSubmitsThenDrains ==
  /\ [](\A t \in Threads : pc[t] = "drain" => NothingPending)
  /\ [][\A t \in Threads :
          /\ (pc[t] = "idle" /\ pc'[t] = "drain" /\ cmd_ # NullCmd) =>
               /\ queue' = Append(queue, [cmd |-> cmd_, fence |-> FALSE, by |-> "flush"])
               /\ cmds'[cmd_].ops = cmds[cmd_].ops
          /\ (pc[t] = "drain" /\ pc'[t] = "idle") =>
               /\ NothingPending'
               /\ buffers_to_clear_' = <<>> /\ images_to_clear_' = <<>>
       ]_vars

\* a flush submitted a batch below the threshold and then released a resource
C5_Witness ==
  /\ \A t \in Threads : pc[t] = "idle"
  /\ \E i \in 1 .. Len(queue) :
       queue[i].by = "flush" /\ BatchSize(i) < cmdSubmitFrequency
  /\ \E r \in 1 .. MaxRes : released[r] = 1

\* C6: a flush that finds no command buffer open and a zero counter submits
\* nothing and leaves counter and command buffers as they are; its drain step
\* changes none of them either and empties both clear lists.
C6_EmptyFlush ==
  [][\A t \in Threads :
       /\ (pc[t] = "idle" /\ pc'[t] = "drain" /\ cmd_ = NullCmd /\ submit_count_ = 0) =>
            UNCHANGED <<cmd_, cmds, submit_count_, queue>>
       /\ (pc[t] = "drain" /\ pc'[t] = "idle") =>
            /\ UNCHANGED <<cmd_, cmds, submit_count_, queue>>
            /\ buffers_to_clear_' = <<>> /\ images_to_clear_' = <<>>
    ]_vars

\* nothing was ever recorded or submitted, yet a flush released a resource
C6_Witness ==
  /\ cmds = <<>> /\ queue = <<>> /\ nextOp = 0
  /\ \A t \in Threads : pc[t] = "idle"
  /\ \E r \in 1 .. MaxRes : released[r] = 1

\* ------------------------------------------------------------ compute jobs
\* ceil(n / d): the least k with k * d >= n
CeilDiv(n, d) == CHOOSE k \in 0 .. n : k * d >= n /\ \A j \in 0 .. k - 1 : j * d < n

LastEntry(b) == cmds[b].ops[Len(cmds[b].ops)]

\* the dispatch entry a compute job has just recorded
JustDispatched(t) == pc[t] = "count" /\ local[t].kind = "job"

\* C7: the dispatch a compute job records has, on each axis, the global
\* work-group size ceil(requested extent / out_tile_size) and the local
\* work-group size it was called with.
C7_EffectiveWorkGroup ==
  \A t \in Threads :
    JustDispatched(t) =>
      /\ cmd_ # NullCmd
      /\ LET e == LastEntry(cmd_)
         IN /\ e.step = "dispatch" /\ e.op = local[t].op
            /\ Len(e.data[1]) = 3
            /\ \A axis \in 1 .. 3 :
                 e.data[1][axis] = CeilDiv(local[t].gwg[axis], local[t].tile[axis])
            /\ e.data[2] = local[t].lwg

\* extent (10, 10, 1) with tile (4, 4, 1) was dispatched as (3, 3, 1)
C7_Witness ==
  \E t \in Threads :
    /\ JustDispatched(t)
    /\ local[t].gwg = <<10, 10, 1>> /\ local[t].tile = <<4, 4, 1>>
    /\ LastEntry(cmd_).data[1] = <<3, 3, 1>>

\* C8: the descriptor set a compute job dispatches with received one bind call
\* per argument, the k-th of them binding argument k at slot k (counted from
\* 0), in increasing slot order.
C8_BindOrder ==
  \A t \in Threads :
    JustDispatched(t) =>
      /\ cmd_ # NullCmd
      /\ LET binds == LastEntry(cmd_).data[3]
             args == local[t].args
         IN /\ Len(binds) = Len(args)
            /\ \A k \in 1 .. Len(args) : binds[k] = <<k - 1, args[k]>>

\* two different arguments, bound at slots 0 and 1 in the order given
C8_Witness ==
  \E t \in Threads :
    /\ JustDispatched(t)
    /\ local[t].args = <<"b", "a">>
    /\ LastEntry(cmd_).data[3] = << <<0, "b">>, <<1, "a">> >>

\* ------------------------------------------------------------ the open buffer
OpenCmds == {b \in 1 .. Len(cmds) : cmds[b].state = "recording"}

\* C9: at most one command buffer is open, and it is cmd_; set_cmd acquires a
\* buffer (empty, recording) only when none is open and otherwise changes
\* nothing; an operation is recorded only into the open buffer.
C9_OneOpenBuffer ==
  /\ [](/\ Cardinality(OpenCmds) <= 1
        /\ OpenCmds = (IF cmd_ = NullCmd THEN {} ELSE {cmd_}))
  /\ [][/\ \A t \in Threads :
             (pc[t] = "set_cmd" /\ pc'[t] # "set_cmd") =>
               IF cmd_ = NullCmd
                 THEN /\ cmd_' = Len(cmds) + 1
                      /\ cmds' = Append(cmds, [state |-> "recording", ops |-> <<>>])
                 ELSE UNCHANGED <<cmd_, cmds>>
        /\ \A b \in 1 .. Len(cmds) : cmds'[b].ops # cmds[b].ops => b = cmd_
       ]_vars

\* set_cmd was called with a buffer open: a thread is past set_cmd and cmd_
\* is the buffer that already held an operation
C9_Witness ==
  \E t \in Threads :
    /\ pc[t] = "barrier"
    /\ cmd_ # NullCmd
    /\ Payloads(cmds[cmd_].ops) >= 1
    /\ Len(cmds) = 1

\* C10: every submission, whether by a fence, the threshold or flush, leaves
\* the counter at zero and no buffer open; a submitted buffer is submitted once
\* and never recorded into again, so that the next operation goes into a newly
\* acquired buffer.
C10_SubmissionResets ==
  /\ [](/\ \A i, j \in 1 .. Len(queue) : queue[i].cmd = queue[j].cmd => i = j
        /\ \A i \in 1 .. Len(queue) :
             /\ queue[i].cmd \in 1 .. Len(cmds)
             /\ queue[i].cmd # cmd_
             /\ cmds[queue[i].cmd].state = "submitted"
        /\ (cmd_ = NullCmd => submit_count_ = 0))
  /\ [][/\ Len(queue') > Len(queue) =>
             /\ submit_count_' = 0
             /\ cmd_' = NullCmd
             /\ Len(queue') = Len(queue) + 1
             /\ queue'[Len(queue')].cmd = cmd_
        /\ \A b \in 1 .. Len(cmds) :
             cmds[b].state = "submitted" => cmds'[b] = cmds[b]
       ]_vars

\* a fenced submission below the threshold, and a later operation counted from
\* one again in a newer buffer
C10_Witness ==
  /\ \E i \in 1 .. Len(queue) :
       /\ queue[i].fence /\ BatchSize(i) < cmdSubmitFrequency
       /\ cmd_ > queue[i].cmd
  /\ submit_count_ = 1
  /\ Payloads(cmds[cmd_].ops) = 1

\* ------------------------------------------------------------ the externally managed lock
\* thread t got past the lock of its copy / dispatch call and has not returned
PastLock(t) == pc[t] \in {"set_cmd", "prologue", "barrier", "payload", "count"}

\* C11: while a thread holds the lock of dispatch_lock(), it owns cmd_mutex_,
\* no other thread is past the lock of a copy / dispatch call, a waiting
\* un-fenced call of another thread keeps waiting, and whatever is recorded
\* into a command buffer belongs to the holder's own operation.
C11_HolderExcludesOthers ==
  /\ [](\A t \in Threads :
          held[t] => /\ cmd_mutex_ = t
                     /\ \A u \in Threads \ {t} : ~PastLock(u))
  /\ [][\A t \in Threads :
          (held[t] /\ held'[t]) =>
            /\ \A u \in Threads \ {t} :
                 (pc[u] = "lock" => pc'[u] = "lock") /\ ~PastLock(u)'
            /\ StreamFrom(1)' # Stream =>
                 /\ PastLock(t)
                 /\ LET s == Stream
                        n == StreamFrom(1)'
                    IN \A k \in 1 .. Len(n) :
                         IF k <= Len(s) THEN n[k] = s[k]
                         ELSE n[k].op = local[t].op
       ]_vars

\* the holder made a fenced call and is inside flush while another thread's
\* un-fenced call waits for the lock
C11_Witness ==
  \E t, u \in Threads :
    /\ t # u
    /\ held[t] /\ pc[t] = "drain"
    /\ \E i \in 1 .. Len(queue) : queue[i].fence
    /\ pc[u] = "lock" /\ ~local[u].fence

\* C12: a copy / dispatch call that passes a fence gets past the lock test
\* only if its thread owns cmd_mutex_ (a caller that does not is stopped by an
\* assertion), so that two threads are never past the lock at once.
C12_MisuseDetected ==
  /\ \A t \in Threads : (PastLock(t) /\ local[t].fence) => cmd_mutex_ = t
  /\ \A t, u \in Threads : (PastLock(t) /\ PastLock(u)) => t = u

\* ------------------------------------------------------------ copies
\* the copy a call has just recorded
JustCopied(t) == pc[t] = "count" /\ local[t].kind = "copy"

\* C13: a copy call exists only for the pairs buffer-buffer, image-image,
\* image-buffer and buffer-image, and what it records after its barrier is the
\* copy primitive of its pair; no other copy entry is in a command buffer.
C13_CopyKinds ==
  /\ \A t \in Threads :
       local[t].kind = "copy" =>
         /\ local[t].S \in {"buffer", "image"}
         /\ local[t].D \in {"buffer", "image"}
  /\ \A t \in Threads :
       JustCopied(t) =>
         /\ cmd_ # NullCmd
         /\ LastEntry(cmd_).op = local[t].op
         /\ LET S == local[t].S
                D == local[t].D
                step == LastEntry(cmd_).step
            IN /\ (S = "buffer" /\ D = "buffer") => step = "copy_buffer_to_buffer"
               /\ (S = "image" /\ D = "image") => step = "copy_texture_to_texture"
               /\ (S = "image" /\ D = "buffer") => step = "copy_texture_to_buffer"
               /\ (S = "buffer" /\ D = "image") => step = "copy_buffer_to_texture"
  /\ \A k \in 1 .. Len(Stream) :
       Stream[k].step \in {"barrier", "copy_buffer_to_buffer", "copy_texture_to_texture",
                           "copy_texture_to_buffer", "copy_buffer_to_texture"}

\* an image-to-buffer copy and a buffer-to-image copy were recorded, each with
\* its own primitive
C13_Witness ==
  /\ \E t \in Threads : JustCopied(t) /\ local[t].S = "buffer" /\ local[t].D = "image"
  /\ Len(Stream) = 4
  /\ Stream[2].step = "copy_texture_to_buffer"
  /\ Stream[4].step = "copy_buffer_to_texture"

\* ------------------------------------------------------------ the context's life
\* the state of the shared recording resource
RecordingState ==
  IF closed THEN "Closed" ELSE IF cmd_ = NullCmd THEN "Idle" ELSE "Recording"

\* C14: the recording resource goes from Idle to Recording when set_cmd opens
\* a buffer, from Recording to Idle through a submission of that buffer, and to
\* Closed only by the destructor, from either state. In Closed no buffer is
\* open, every buffer handed out was submitted, both clear lists are empty and
\* everything registered was released; nothing changes after Closed.
C14_Lifecycle ==
  /\ [](closed =>
          /\ cmd_ = NullCmd /\ submit_count_ = 0
          /\ \A b \in 1 .. Len(cmds) :
               /\ cmds[b].state = "submitted"
               /\ \E i \in 1 .. Len(queue) : queue[i].cmd = b
          /\ buffers_to_clear_ = <<>> /\ images_to_clear_ = <<>>
          /\ \A r \in 1 .. MaxRes : released[r] = registered[r]
          /\ \A t \in Threads : pc[t] = "idle")
  /\ [][/\ (RecordingState = "Idle" /\ RecordingState' = "Recording") =>
             /\ \E t \in Threads : pc[t] = "set_cmd" /\ pc'[t] # "set_cmd"
             /\ cmds' = Append(cmds, [state |-> "recording", ops |-> <<>>])
        /\ (RecordingState = "Recording" /\ RecordingState' = "Idle") =>
             /\ Len(queue') = Len(queue) + 1
             /\ queue'[Len(queue')].cmd = cmd_
        /\ (RecordingState = "Recording" /\ RecordingState' = "Recording") =>
             cmd_' = cmd_
        /\ (RecordingState # "Closed" /\ RecordingState' = "Closed") =>
             /\ \A t \in Threads : pc[t] = "idle"
             /\ StreamFrom(1)' = Stream
             /\ cmd_ # NullCmd =>
                  queue' = Append(queue, [cmd |-> cmd_, fence |-> FALSE, by |-> "flush"])
        /\ RecordingState = "Closed" => UNCHANGED vars
       ]_vars

\* the context was destroyed with an operation pending below the threshold and
\* a resource in a clear list: the operation was submitted, the resource
\* released
C14_Witness ==
  /\ closed
  /\ Len(queue) = 1 /\ queue[1].by = "flush"
  /\ BatchSize(1) = 1 /\ cmdSubmitFrequency = 2
  /\ \E r \in 1 .. MaxRes : released[r] = 1

\* ------------------------------------------------------------ the clear lists' locks
\* C15: a registration waits for the mutex of its own clear list only: with
\* that mutex free it goes on whoever owns the recording mutex or the other
\* list's mutex, and once it has the mutex it completes. A thread that holds the
\* lock of dispatch_lock() can destroy a wrapper. Every completed registration
\* left its entry: the entries in the lists and the released ones are as many
\* as the registrations made.
C15_IndependentLocks ==
  /\ \A t \in Threads :
       /\ (pc[t] = "reg_buffer" /\ buffer_clearlist_mutex_ = NoOwner) =>
            ENABLED RegBufferLock(t)
       /\ (pc[t] = "reg_image" /\ image_clearlist_mutex_ = NoOwner) =>
            ENABLED RegImageLock(t)
       /\ pc[t] = "push_buffer" =>
            buffer_clearlist_mutex_ = t /\ ENABLED RegBufferPush(t)
       /\ pc[t] = "push_image" =>
            image_clearlist_mutex_ = t /\ ENABLED RegImagePush(t)
       /\ (pc[t] = "idle" /\ ~closed) =>
            \A i \in 1 .. Len(wrappers) : wrappers[i].live => ENABLED Destroy(t, i)
  /\ \A r \in 1 .. MaxRes : registered[r] = Queued(r) + released[r]
  /\ Len(buffers_to_clear_) + Len(images_to_clear_)
       = Cardinality({r \in 1 .. MaxRes : Queued(r) = 1})

\* a buffer is being registered while another thread is recording under the
\* recording mutex and an image waits in the other list
C15_Witness ==
  \E t, u \in Threads :
    /\ t # u
    /\ pc[t] = "push_buffer"
    /\ PastLock(u) /\ cmd_mutex_ = u
    /\ Len(images_to_clear_) = 1

\* ------------------------------------------------------------ the order of a call's steps
\* the entries of the command stream that belong to operation op
OpEntries(op) == SelectSeq(Stream, LAMBDA e : e.op = op)

\* C16: a call goes through its steps in one order: set_cmd leaves a buffer
\* open and records nothing; then the barrier entry is appended, then the
\* payload entry, both to the open buffer; only then the counter is incremented
\* and the policy applied, and a submission made by that step hands over the
\* buffer whose last entry is the call's own payload. So every operation in the
\* stream is its barrier followed by its payload, and a call that has returned
\* left both.
C16_StepOrder ==
  /\ [](/\ \A t \in Threads :
             /\ pc[t] \in {"lock", "set_cmd", "prologue", "barrier"} =>
                  (local[t].op = 0 \/ OpEntries(local[t].op) = <<>>)
             /\ pc[t] = "payload" =>
                  /\ Len(OpEntries(local[t].op)) = 1
                  /\ OpEntries(local[t].op)[1].step = "barrier"
             /\ pc[t] = "count" =>
                  /\ Len(OpEntries(local[t].op)) = 2
                  /\ OpEntries(local[t].op)[1].step = "barrier"
                  /\ OpEntries(local[t].op)[2].step # "barrier"
        /\ \A op \in 1 .. nextOp :
             (\A t \in Threads : local[t].op # op) =>
               /\ Len(OpEntries(op)) = 2
               /\ OpEntries(op)[1].step = "barrier"
               /\ OpEntries(op)[2].step # "barrier")
  /\ [][\A t \in Threads :
          /\ pc'[t] # pc[t] =>
               CASE pc[t] = "lock" -> pc'[t] = "set_cmd"
                 [] pc[t] = "set_cmd" ->
                      pc'[t] = (IF local[t].kind = "job" THEN "prologue" ELSE "barrier")
                 [] pc[t] = "prologue" -> pc'[t] = "barrier"
                 [] pc[t] = "barrier" -> pc'[t] = "payload"
                 [] pc[t] = "payload" -> pc'[t] = "count"
                 [] pc[t] = "count" -> pc'[t] = "idle"
                 [] OTHER -> TRUE
          /\ (pc[t] = "set_cmd" /\ pc'[t] # "set_cmd") =>
               /\ cmd_' # NullCmd /\ cmds'[cmd_'].state = "recording"
               /\ StreamFrom(1)' = Stream
               /\ UNCHANGED <<submit_count_, queue>>
          /\ (pc[t] = "barrier" /\ pc'[t] = "payload") =>
               /\ cmd_ # NullCmd /\ cmd_' = cmd_
               /\ cmds'[cmd_].ops =
                    Append(cmds[cmd_].ops,
                           [op |-> local[t].op, step |-> "barrier", data |-> <<>>])
               /\ UNCHANGED <<submit_count_, queue>>
          /\ (pc[t] = "payload" /\ pc'[t] = "count") =>
               /\ cmd_ # NullCmd /\ cmd_' = cmd_
               /\ Len(cmds'[cmd_].ops) = Len(cmds[cmd_].ops) + 1
               /\ LastEntry(cmd_)' .op = local[t].op
               /\ LastEntry(cmd_)' .step # "barrier"
               /\ UNCHANGED <<submit_count_, queue>>
          /\ (pc[t] = "count" /\ pc'[t] = "idle") =>
               /\ StreamFrom(1)' = Stream
               /\ \/ submit_count_' = submit_count_ + 1 /\ queue' = queue
                  \/ /\ submit_count_' = 0
                     /\ queue' = Append(queue, [cmd |-> cmd_, fence |-> local[t].fence,
                                                by |-> "op"])
                     /\ LastEntry(cmd_).op = local[t].op
                     /\ LastEntry(cmd_).step # "barrier"
       ]_vars

\* a call that reached the threshold is at its last step: barrier and payload
\* are recorded behind an earlier operation, nothing is submitted yet
C16_Witness ==
  \E t \in Threads :
    /\ pc[t] = "count" /\ ~local[t].fence
    /\ submit_count_ + 1 = cmdSubmitFrequency
    /\ cmd_ # NullCmd /\ Len(cmds[cmd_].ops) = 4
    /\ queue = <<>>

\* ------------------------------------------------------------ the counter
\* no copy / dispatch call is past the lock
NoCallInProgress == \A t \in Threads : ~PastLock(t)

\* C17: between calls the counter is the number of operations in the open
\* command buffer, which is at least one, and zero when no buffer is open; with
\* a threshold T >= 1 it is below T between calls and never above T.
C17_CounterMatchesOpenBuffer ==
  /\ NoCallInProgress =>
       /\ submit_count_ = (IF cmd_ = NullCmd THEN 0 ELSE Payloads(cmds[cmd_].ops))
       /\ cmd_ # NullCmd => submit_count_ >= 1
       /\ cmdSubmitFrequency >= 1 => submit_count_ < cmdSubmitFrequency
  /\ cmdSubmitFrequency >= 1 => submit_count_ <= cmdSubmitFrequency

\* after a submission at the threshold one more operation is pending and
\* counted
C17_Witness ==
  /\ NoCallInProgress
  /\ \A t \in Threads : pc[t] = "idle"
  /\ cmdSubmitFrequency = 2
  /\ Len(queue) = 1 /\ BatchSize(1) = 2 /\ ~queue[1].fence
  /\ cmd_ # NullCmd /\ submit_count_ = 1

C19_SubmitEveryCall ==
  /\ [](cmdSubmitFrequency <= 1 =>
          /\ NoCallInProgress => (cmd_ = NullCmd /\ submit_count_ = 0)
          /\ \A i \in 1 .. Len(queue) : BatchSize(i) = 1 /\ queue[i].by = "op"
          /\ Len(queue) = nextOp - Cardinality({t \in Threads : PastLock(t)}))
  /\ [][cmdSubmitFrequency <= 1 =>
          \A t \in Threads :
            (pc[t] = "count" /\ pc'[t] = "idle") =>
              /\ queue' = Append(queue, [cmd |-> cmd_, fence |-> local[t].fence,
                                         by |-> "op"])
              /\ cmd_' = NullCmd
       ]_vars

\* threshold 0: three un-fenced calls and a fenced one, four submissions of
\* one operation each
C19_Witness ==
  /\ cmdSubmitFrequency = 0
  /\ NoCallInProgress
  /\ Len(queue) = 4
  /\ Cardinality({i \in 1 .. Len(queue) : queue[i].fence}) = 1
  /\ \A i \in 1 .. Len(queue) : BatchSize(i) = 1

====
